---- MODULE Spec2Model ----
(***************************************************************************)
(* Model of src/script.js (AI Developer Journey Assessment): the scoring   *)
(* of an answer set (AssessmentManager.calculateResults), the locale       *)
(* resolution chain (I18nManager.detectLanguage), the share-token codec    *)
(* (ResultsManager.shareResults / getSharedResults) and the translation    *)
(* cache with the application's load flow (I18nManager.loadTranslations,   *)
(* changeLanguage, AIJourneyApp.init and its handlers), and the assessment *)
(* on a loaded page (AssessmentManager and the handlers of                 *)
(* AIJourneyApp.setupEventListeners).                                      *)
(*                                                                         *)
(* JavaScript strings that the code takes apart (language tags, the share  *)
(* token, the JSON text) are sequences of one-character strings; strings   *)
(* the code only compares are TLA+ strings.                                *)
(***************************************************************************)
EXTENDS Integers, Sequences, FiniteSets, TLC

VARIABLES
    \* AssessmentManager
    questions,          \* this.questions: sequence of questions (JS index i is questions[i+1])
    answers,            \* this.answers: sparse array, a function from JS question index to option index
    calcResult,         \* outcome of the last calculateResults() call
    \* signal sources read by I18nManager.detectLanguage
    urlLang,            \* URLSearchParams(window.location.search).get('lang')
    lsLang,             \* localStorage item 'preferred-language'
    storage,            \* "ok", or "denied": every localStorage access throws
    browserLanguages,   \* navigator.languages
    timezone,           \* Intl.DateTimeFormat().resolvedOptions().timeZone, or IntlThrows
    \* I18nManager
    constructed,        \* "no", "yes", or "threw" (the constructor propagated an exception)
    currentLang,        \* this.currentLang
    \* sharing
    codecInput,         \* the results object handed to shareResults
    now,                \* Date.now()
    shareToken,         \* the text after "?results=" in the URL shareResults built, or NoText
    urlResults,         \* the text after "results=" in window.location.search, or NoText
    sharedChecked,      \* checkForSharedResults has run
    pendingSharedResults, \* AIJourneyApp.pendingSharedResults (JNull for null)
    \* translation cache and retrievals
    translations,       \* I18nManager.translations: lang -> content, NoContent when absent
    loadingPromises,    \* I18nManager.loadingPromises: lang -> promise, NoPromise when absent
    fetches,            \* retrievals in flight: the fetch() calls not yet settled
    fetchCount,         \* lang -> number of fetch() calls issued so far
    waiters,            \* continuations awaiting a pending promise, in registration order
    completed,          \* history: what each finished loadTranslations call received
    callCount,          \* history: number of calls made by user events
    \* AIJourneyApp and the page
    initPhase,          \* init(): "new", "loading", "ready" (listeners set up), "failed"
    hideTimer,          \* the timer of hideLoadingScreen: "none", "armed", "fired"
    cleanupTimers,      \* pending timers of cleanupSharedResultsUrl
    docLang,            \* document.documentElement.lang
    lsResults,          \* localStorage item 'assessment-results' (JSON text), or NoText
    assessmentDisplay,  \* style.display of the assessment section
    resultsDisplay,     \* style.display of the results section
    displayed,          \* the results last rendered by displayResults (JNull: none)
    currentQuestionIndex, \* AssessmentManager.currentQuestionIndex
    renderedQuestion,   \* index of the question whose options are in the container, -1: none
    finishDisplay,      \* style.display of the finish button
    advanceTimers,      \* pending auto-advance timers of the option click handler
    sharedShown,        \* history: number of times a shared result was displayed
    userEvents          \* history: number of clicks, key presses and resizes after the load

----------------------------------------------------------------------------
(* Generic helpers *)

Range(f) == {f[x] : x \in DOMAIN f}

Max(S) == CHOOSE x \in S : \A y \in S : y <= x

----------------------------------------------------------------------------
(* Bounds *)

MaxQuestions == 2       \* longest question list explored
MaxOptionIndex == 3     \* recorded option indices range over 0..MaxOptionIndex
MaxLanguages == 2       \* longest navigator.languages list explored
MaxCalls == 2           \* language buttons clicked and history entries visited

----------------------------------------------------------------------------
(* AssessmentManager.calculateResults *)

\* Object.keys(stageScores): insertion order of the literal at line 331
StageKeys == <<"stage1", "stage2", "stage3", "stage4">>

StageSet == Range(StageKeys)

\* const stageScores = { stage1: 0, stage2: 0, stage3: 0, stage4: 0 }
ZeroScores == [k \in StageSet |-> 0]

\* The divisor constant of the percentage (this.questions.length * 3)
MaxPerQuestion == 3

\* An option's score map: stage key -> contribution; absent keys contribute nothing
Opt(score) == [hasScore |-> TRUE, score |-> score]

\* An option whose content carries no score map at all
NoScoreOpt == [hasScore |-> FALSE, score |-> <<>>]

\* Question content (lang/*.json is data, not code): a pool of option lists
\* over the keys stage1..stage4 with contributions 0..3
QuestionPool ==
    { << Opt("stage1" :> 3), Opt("stage2" :> 3), Opt("stage3" :> 3) >>,
      << Opt(("stage1" :> 2) @@ ("stage2" :> 2)), Opt(("stage3" :> 1) @@ ("stage4" :> 3)), NoScoreOpt >>,
      << Opt(("stage2" :> 1) @@ ("stage3" :> 0)), Opt("stage4" :> 2), Opt(<<>>) >> }

\* Object.keys(selectedOption.score).forEach(stage => stageScores[stage] += ...)
\* (lines 338-340); content keys are stage keys, so no key is added
\* Mutant: the contribution overwrites the accumulator instead of adding to it
AddScore_Overwrite(stageScores, score) ==
    [k \in DOMAIN stageScores |->
        IF k \in DOMAIN score THEN score[k] ELSE stageScores[k]]

AddScore(stageScores, score) ==
    [k \in DOMAIN stageScores |->
        stageScores[k] + (IF k \in DOMAIN score THEN score[k] ELSE 0)]

\* The forEach callback (lines 333-342) for one array slot; holes are skipped
\* by forEach, an option index outside question.options gives undefined
ScoreAnswer(stageScores, qs, ans, questionIndex) ==
    IF questionIndex \notin DOMAIN ans THEN stageScores
    ELSE LET question == qs[questionIndex + 1]
             answerIndex == ans[questionIndex]
         IN  IF answerIndex + 1 \in DOMAIN question /\ question[answerIndex + 1].hasScore
             THEN AddScore(stageScores, question[answerIndex + 1].score)
             ELSE stageScores

RECURSIVE ForEachAnswer(_, _, _, _)
\* this.answers.forEach(...) in ascending index order from questionIndex on
ForEachAnswer(stageScores, qs, ans, questionIndex) ==
    IF DOMAIN ans = {} \/ questionIndex > Max(DOMAIN ans) THEN stageScores
    ELSE ForEachAnswer(ScoreAnswer(stageScores, qs, ans, questionIndex), qs, ans, questionIndex + 1)

\* Mutant: the reducer keeps its accumulator
MaxReducer_KeepsFirst(stageScores, a, b) == a

\* The reducer of line 345-347: (a, b) => stageScores[a] > stageScores[b] ? a : b
MaxReducer(stageScores, a, b) == IF stageScores[a] > stageScores[b] THEN a ELSE b

RECURSIVE ReduceKeys(_, _, _)
\* Array.prototype.reduce without initial value: acc starts as keys[0]
ReduceKeys(stageScores, acc, i) ==
    IF i > Len(StageKeys) THEN acc
    ELSE ReduceKeys(stageScores, MaxReducer(stageScores, acc, StageKeys[i]), i + 1)

MaxStage(stageScores) == ReduceKeys(stageScores, StageKeys[1], 2)

\* Mutant: the quotient is truncated instead of rounded
Percentage_Truncated(score, n) ==
    (100 * score) \div (MaxPerQuestion * n)

\* Math.round(x / (n * 3) * 100): round half up, in integers
Percentage(score, n) ==
    (200 * score + MaxPerQuestion * n) \div (2 * MaxPerQuestion * n)

\* An answer whose question index lies outside this.questions makes
\* question undefined, and question.options (line 335) throws a TypeError
AnswerOutsideQuestions(qs, ans) == \E qi \in DOMAIN ans : qi + 1 \notin DOMAIN qs

\* Math.round(0 / 0 * 100) is NaN: the percentage over an empty question list
NaN == -1

NoCalc == [status |-> "none", stage |-> "", scores |-> ZeroScores, percentage |-> 0]

CalcThrew == [status |-> "threw", stage |-> "", scores |-> ZeroScores, percentage |-> 0]

calculateResults(qs, ans) ==
    IF AnswerOutsideQuestions(qs, ans) THEN CalcThrew
    ELSE LET stageScores == ForEachAnswer(ZeroScores, qs, ans, 0)
             maxStage == MaxStage(stageScores)
         IN  [status |-> "returned",
              stage |-> maxStage,
              scores |-> stageScores,
              percentage |-> IF Len(qs) = 0 THEN NaN
                             ELSE Percentage(stageScores[maxStage], Len(qs))]

----------------------------------------------------------------------------
(* I18nManager.detectLanguage *)

\* null (absent URL parameter, absent storage item)
Null == "<null>"

\* the timezone lookup throws (Intl unavailable)
IntlThrows == "<Intl throws>"

\* ['en', 'zh-TW'] of lines 23 and 29
SupportedLangs == {"en", "zh-TW"}

\* String.prototype.startsWith on character sequences
StartsWith(s, prefix) ==
    /\ Len(s) >= Len(prefix)
    /\ SubSeq(s, 1, Len(prefix)) = prefix

T_en == <<"e", "n">>
T_enDash == <<"e", "n", "-">>
T_zh == <<"z", "h">>
T_zhTW == <<"z", "h", "-", "T", "W">>
T_zhHant == <<"z", "h", "-", "H", "a", "n", "t">>
T_zhHantTW == <<"z", "h", "-", "H", "a", "n", "t", "-", "T", "W">>
T_zhHK == <<"z", "h", "-", "H", "K">>
T_zhMO == <<"z", "h", "-", "M", "O">>

\* Mutant: English is matched by the bare prefix "en", not "en-"
MatchLanguage_BarePrefix(lang) ==
    IF lang = T_zhTW \/ lang = T_zhHantTW \/ lang = T_zhHant THEN "zh-TW"
    ELSE IF StartsWith(lang, T_en) THEN "en"
    ELSE IF StartsWith(lang, T_zh) THEN "zh-TW"
    ELSE Null

\* The body of the for loop (lines 37-54) for one entry: the locale it
\* returns, or Null when the loop continues with the next entry
MatchLanguage(lang) ==
    IF lang = T_zhTW \/ lang = T_zhHantTW \/ lang = T_zhHant THEN "zh-TW"
    ELSE IF lang = T_en \/ StartsWith(lang, T_enDash) THEN "en"
    ELSE IF StartsWith(lang, T_zhTW) \/ StartsWith(lang, T_zhHant)
            \/ lang = T_zhHK \/ lang = T_zhMO THEN "zh-TW"
    ELSE IF StartsWith(lang, T_zh) THEN "zh-TW"
    ELSE Null

RECURSIVE ScanLanguages(_, _)
\* for (const lang of browserLanguages) { ... } (lines 36-55)
ScanLanguages(langs, i) ==
    IF i > Len(langs) THEN Null
    ELSE IF MatchLanguage(langs[i]) # Null THEN MatchLanguage(langs[i])
    ELSE ScanLanguages(langs, i + 1)

\* The try block of lines 58-66
TimezoneHint(tz) ==
    IF tz = IntlThrows THEN Null
    ELSE IF tz = "Asia/Taipei" \/ tz = "Asia/Hong_Kong" \/ tz = "Asia/Macau" THEN "zh-TW"
    ELSE Null

\* urlLang && ['en', 'zh-TW'].includes(urlLang)
IsSupportedParam(v) == v # Null /\ v # "" /\ v \in SupportedLangs

\* localStorage.getItem('preferred-language') at line 28 is outside any try
StoredLangReadThrows(st) == st = "denied"

Returned(lang) == [status |-> "returned", lang |-> lang]

Threw == [status |-> "threw", lang |-> Null]

\* Mutant: the stored preference is consulted before the URL parameter
detectLanguage_StoredFirst(url, st, stored, langs, tz) ==
    IF StoredLangReadThrows(st) THEN Threw
    ELSE IF IsSupportedParam(stored) THEN Returned(stored)
    ELSE IF IsSupportedParam(url) THEN Returned(url)
    ELSE IF ScanLanguages(langs, 1) # Null THEN Returned(ScanLanguages(langs, 1))
    ELSE IF TimezoneHint(tz) # Null THEN Returned(TimezoneHint(tz))
    ELSE Returned("en")

detectLanguage(url, st, stored, langs, tz) ==
    IF IsSupportedParam(url) THEN Returned(url)
    ELSE IF StoredLangReadThrows(st) THEN Threw
    ELSE IF IsSupportedParam(stored) THEN Returned(stored)
    ELSE IF ScanLanguages(langs, 1) # Null THEN Returned(ScanLanguages(langs, 1))
    ELSE IF TimezoneHint(tz) # Null THEN Returned(TimezoneHint(tz))
    ELSE Returned("en")

----------------------------------------------------------------------------
(* Text: JavaScript strings that are encoded or parsed are sequences of     *)
(* character codes                                                          *)

\* The printable ASCII characters, code 32 (space) to 126 (~); code 96 is
\* spelled GRAVE because a TLA+ string cannot hold that character
Ascii ==
    << " ", "!", "\"", "#", "$", "%", "&", "'", "(", ")", "*", "+", ",", "-", ".", "/",
       "0", "1", "2", "3", "4", "5", "6", "7", "8", "9", ":", ";", "<", "=", ">", "?",
       "@", "A", "B", "C", "D", "E", "F", "G", "H", "I", "J", "K", "L", "M", "N", "O",
       "P", "Q", "R", "S", "T", "U", "V", "W", "X", "Y", "Z", "[", "\\", "]", "^", "_",
       "GRAVE", "a", "b", "c", "d", "e", "f", "g", "h", "i", "j", "k", "l", "m", "n", "o",
       "p", "q", "r", "s", "t", "u", "v", "w", "x", "y", "z", "{", "|", "}", "~" >>

OrdTable == [c \in Range(Ascii) |-> 31 + (CHOOSE i \in DOMAIN Ascii : Ascii[i] = c)]

\* Character code of a one-character string
Ord(c) == OrdTable[c]

\* Codes of a tuple of one-character strings
Codes(chars) == [i \in DOMAIN chars |-> Ord(chars[i])]

RECURSIVE Digits(_)
\* Decimal digits of a natural number, as Number.prototype.toString gives them
Digits(n) ==
    IF n < 10 THEN <<Ord("0") + n>>
    ELSE Digits(n \div 10) \o <<Ord("0") + (n % 10)>>

----------------------------------------------------------------------------
(* JSON values, JSON.stringify and JSON.parse                               *)
(* The texts handled hold objects, strings without escapes, integers and    *)
(* the literals true, false, null.                                          *)

JNull == [t |-> "null", n |-> 0, s |-> <<>>, o |-> <<>>]

\* undefined: what a property read gives when the property is missing
JUndefined == [t |-> "undefined", n |-> 0, s |-> <<>>, o |-> <<>>]

JBool(b) == [t |-> "bool", n |-> IF b THEN 1 ELSE 0, s |-> <<>>, o |-> <<>>]

JNum(n) == [t |-> "num", n |-> n, s |-> <<>>, o |-> <<>>]

JStr(s) == [t |-> "str", n |-> 0, s |-> s, o |-> <<>>]

\* The number NaN, which JSON.stringify writes as null
JNaN == [t |-> "nan", n |-> 0, s |-> <<>>, o |-> <<>>]

\* An object: its members in insertion order, each [k |-> key, v |-> value]
JObj(members) == [t |-> "obj", n |-> 0, s |-> <<>>, o |-> members]

Member(key, value) == [k |-> key, v |-> value]

HasProp(obj, key) == obj.t = "obj" /\ \E i \in DOMAIN obj.o : obj.o[i].k = key

\* obj[key]: undefined when obj is a primitive or has no such property
Prop(obj, key) ==
    IF HasProp(obj, key)
    THEN obj.o[CHOOSE i \in DOMAIN obj.o : obj.o[i].k = key].v
    ELSE JUndefined

\* obj[key] = value on a parsed object: a repeated key keeps its place
SetProp(members, key, value) ==
    IF \E i \in DOMAIN members : members[i].k = key
    THEN [i \in DOMAIN members |->
            IF members[i].k = key THEN Member(key, value) ELSE members[i]]
    ELSE Append(members, Member(key, value))

\* JavaScript truthiness (ToBoolean)
Truthy(v) ==
    CASE v.t = "null" -> FALSE
      [] v.t = "undefined" -> FALSE
      [] v.t = "bool" -> v.n = 1
      [] v.t = "num" -> v.n # 0
      [] v.t = "nan" -> FALSE
      [] v.t = "str" -> v.s # <<>>
      [] v.t = "obj" -> TRUE

Quote == Ord("\"")

RECURSIVE JSONStringify(_)
RECURSIVE StringifyMembers(_, _)
StringifyMembers(members, i) ==
    IF i > Len(members) THEN <<>>
    ELSE (IF i > 1 THEN <<Ord(",")>> ELSE <<>>)
         \o <<Quote>> \o members[i].k \o <<Quote, Ord(":")>>
         \o JSONStringify(members[i].v)
         \o StringifyMembers(members, i + 1)

JSONStringify(v) ==
    CASE v.t \in {"null", "nan"} -> Codes(<<"n", "u", "l", "l">>)
      [] v.t = "bool" -> IF v.n = 1 THEN Codes(<<"t", "r", "u", "e">>)
                                     ELSE Codes(<<"f", "a", "l", "s", "e">>)
      [] v.t = "num" -> IF v.n < 0 THEN <<Ord("-")>> \o Digits(0 - v.n) ELSE Digits(v.n)
      [] v.t = "str" -> <<Quote>> \o v.s \o <<Quote>>
      [] v.t = "obj" -> <<Ord("{")>> \o StringifyMembers(v.o, 1) \o <<Ord("}")>>

ParseFail == [ok |-> FALSE, v |-> JNull, pos |-> 0]

Parsed(v, pos) == [ok |-> TRUE, v |-> v, pos |-> pos]

IsWhitespace(c) == c \in {9, 10, 13, 32}

IsDigit(c) == c >= Ord("0") /\ c <= Ord("9")

RECURSIVE SkipWhitespace(_, _)
SkipWhitespace(text, i) ==
    IF i <= Len(text) /\ IsWhitespace(text[i]) THEN SkipWhitespace(text, i + 1) ELSE i

RECURSIVE StringEnd(_, _)
\* Position of the closing quote of the string whose content starts at i,
\* or 0 when the string is unterminated or holds a character JSON forbids
StringEnd(text, i) ==
    IF i > Len(text) THEN 0
    ELSE IF text[i] = Quote THEN i
    ELSE IF text[i] < 32 \/ text[i] = Ord("\\") THEN 0
    ELSE StringEnd(text, i + 1)

ParseString(text, i) ==
    IF i > Len(text) \/ text[i] # Quote THEN ParseFail
    ELSE LET e == StringEnd(text, i + 1)
         IN  IF e = 0 THEN ParseFail
             ELSE Parsed(JStr(SubSeq(text, i + 1, e - 1)), e + 1)

RECURSIVE DigitsEnd(_, _)
\* First position at or after i that holds no digit
DigitsEnd(text, i) ==
    IF i <= Len(text) /\ IsDigit(text[i]) THEN DigitsEnd(text, i + 1) ELSE i

RECURSIVE DigitsValue(_, _, _)
DigitsValue(text, i, e) ==
    IF e < i THEN 0 ELSE 10 * DigitsValue(text, i, e - 1) + (text[e] - Ord("0"))

\* An integer: an optional "-", then 0 or a digit string without leading zero
ParseNumber(text, i) ==
    LET neg == i <= Len(text) /\ text[i] = Ord("-")
        s == IF neg THEN i + 1 ELSE i
        e == DigitsEnd(text, s)
    IN  IF e = s THEN ParseFail
        ELSE IF text[s] = Ord("0") /\ e > s + 1 THEN ParseFail
        ELSE IF e <= Len(text) /\ text[e] \in {Ord("."), Ord("e"), Ord("E")} THEN ParseFail
        ELSE Parsed(JNum(IF neg THEN 0 - DigitsValue(text, s, e - 1)
                                ELSE DigitsValue(text, s, e - 1)), e)

ParseLiteral(text, i, word, v) ==
    IF i + Len(word) - 1 <= Len(text) /\ SubSeq(text, i, i + Len(word) - 1) = word
    THEN Parsed(v, i + Len(word))
    ELSE ParseFail

RECURSIVE ParseValue(_, _)
RECURSIVE ParseMembers(_, _, _)
\* The members of an object from position i (a key is expected there)
ParseMembers(text, i, members) ==
    LET key == ParseString(text, SkipWhitespace(text, i))
        colon == SkipWhitespace(text, key.pos)
    IN  IF ~key.ok \/ colon > Len(text) \/ text[colon] # Ord(":") THEN ParseFail
        ELSE LET val == ParseValue(text, SkipWhitespace(text, colon + 1))
                 next == SkipWhitespace(text, val.pos)
             IN  IF ~val.ok \/ next > Len(text) THEN ParseFail
                 ELSE IF text[next] = Ord("}")
                      THEN Parsed(JObj(SetProp(members, key.v.s, val.v)), next + 1)
                 ELSE IF text[next] = Ord(",")
                      THEN ParseMembers(text, next + 1, SetProp(members, key.v.s, val.v))
                 ELSE ParseFail

ParseValue(text, i) ==
    IF i > Len(text) THEN ParseFail
    ELSE IF text[i] = Ord("{")
         THEN LET j == SkipWhitespace(text, i + 1)
              IN  IF j <= Len(text) /\ text[j] = Ord("}") THEN Parsed(JObj(<<>>), j + 1)
                  ELSE ParseMembers(text, j, <<>>)
    ELSE IF text[i] = Quote THEN ParseString(text, i)
    ELSE IF text[i] = Ord("-") \/ IsDigit(text[i]) THEN ParseNumber(text, i)
    ELSE IF text[i] = Ord("t") THEN ParseLiteral(text, i, Codes(<<"t", "r", "u", "e">>), JBool(TRUE))
    ELSE IF text[i] = Ord("f") THEN ParseLiteral(text, i, Codes(<<"f", "a", "l", "s", "e">>), JBool(FALSE))
    ELSE IF text[i] = Ord("n") THEN ParseLiteral(text, i, Codes(<<"n", "u", "l", "l">>), JNull)
    ELSE ParseFail

\* The value r read from the start of text is the result when only
\* whitespace follows it
WholeText(text, r) ==
    IF r.ok /\ SkipWhitespace(text, r.pos) = Len(text) + 1 THEN r ELSE ParseFail

\* JSON.parse(text): ok is FALSE where JSON.parse throws a SyntaxError
JSONParse(text) == WholeText(text, ParseValue(text, SkipWhitespace(text, 1)))

----------------------------------------------------------------------------
(* btoa, atob and URLSearchParams.get *)

Base64Alphabet ==
    Codes(<< "A", "B", "C", "D", "E", "F", "G", "H", "I", "J", "K", "L", "M", "N", "O", "P",
       "Q", "R", "S", "T", "U", "V", "W", "X", "Y", "Z", "a", "b", "c", "d", "e", "f",
       "g", "h", "i", "j", "k", "l", "m", "n", "o", "p", "q", "r", "s", "t", "u", "v",
       "w", "x", "y", "z", "0", "1", "2", "3", "4", "5", "6", "7", "8", "9", "+", "/" >>)

Pad == Ord("=")

SextetTable ==
    [c \in Range(Base64Alphabet) |-> (CHOOSE i \in DOMAIN Base64Alphabet : Base64Alphabet[i] = c) - 1]

RECURSIVE EncodeFrom(_, _)
\* Three bytes from position i become four characters, "=" pads the last group
EncodeFrom(bytes, i) ==
    IF i > Len(bytes) THEN <<>>
    ELSE LET b1 == bytes[i]
             b2 == IF i + 1 <= Len(bytes) THEN bytes[i + 1] ELSE 0
             b3 == IF i + 2 <= Len(bytes) THEN bytes[i + 2] ELSE 0
             n == b1 * 65536 + b2 * 256 + b3
         IN  << Base64Alphabet[(n \div 262144) + 1],
                Base64Alphabet[((n \div 4096) % 64) + 1],
                IF i + 1 <= Len(bytes) THEN Base64Alphabet[((n \div 64) % 64) + 1] ELSE Pad,
                IF i + 2 <= Len(bytes) THEN Base64Alphabet[(n % 64) + 1] ELSE Pad >>
             \o EncodeFrom(bytes, i + 3)

\* btoa(string): throws (ok FALSE) when a character is above code 255
btoa(bytes) ==
    IF \E i \in DOMAIN bytes : bytes[i] > 255 THEN [ok |-> FALSE, out |-> <<>>]
    ELSE [ok |-> TRUE, out |-> EncodeFrom(bytes, 1)]

IsNotAsciiWhitespace(c) == c \notin {9, 10, 12, 13, 32}

\* Remove one or two trailing "=" when the length is a multiple of four
StripPadding(data) ==
    IF Len(data) % 4 # 0 \/ Len(data) = 0 THEN data
    ELSE IF data[Len(data)] # Pad THEN data
    ELSE IF data[Len(data) - 1] = Pad THEN SubSeq(data, 1, Len(data) - 2)
    ELSE SubSeq(data, 1, Len(data) - 1)

RECURSIVE DecodeFrom(_, _)
\* Four characters from position i become three bytes; a last group of
\* three gives two bytes, of two gives one byte
DecodeFrom(data, i) ==
    LET left == Len(data) - i + 1
        v(j) == IF i + j <= Len(data) THEN SextetTable[data[i + j]] ELSE 0
        n == v(0) * 262144 + v(1) * 4096 + v(2) * 64 + v(3)
    IN  IF left <= 0 THEN <<>>
        ELSE IF left = 2 THEN << n \div 65536 >>
        ELSE IF left = 3 THEN << n \div 65536, (n \div 256) % 256 >>
        ELSE << n \div 65536, (n \div 256) % 256, n % 256 >> \o DecodeFrom(data, i + 4)

\* atob(data) (forgiving-base64 decode): throws (ok FALSE) on a character
\* outside the alphabet or a length that leaves a single character over
atob(raw) ==
    LET data == StripPadding(SelectSeq(raw, IsNotAsciiWhitespace))
    IN  IF Len(data) % 4 = 1 \/ \E i \in DOMAIN data : data[i] \notin Range(Base64Alphabet)
        THEN [ok |-> FALSE, out |-> <<>>]
        ELSE [ok |-> TRUE, out |-> DecodeFrom(data, 1)]

\* The part of the raw query text before the first "&"
UntilAmpersand(raw) ==
    LET amps == {i \in DOMAIN raw : raw[i] = Ord("&")}
    IN  IF amps = {} THEN raw
        ELSE SubSeq(raw, 1, (CHOOSE i \in amps : \A j \in amps : i <= j) - 1)

\* URLSearchParams.get on the raw text after "results=": the value ends at
\* "&" and "+" decodes to a space (no "%" occurs in the values explored)
URLParamValue(raw) ==
    LET value == UntilAmpersand(raw)
    IN  [i \in DOMAIN value |-> IF value[i] = Ord("+") THEN Ord(" ") ELSE value[i]]

----------------------------------------------------------------------------
(* ResultsManager.shareResults and getSharedResults *)

K_stage == Codes(<<"s", "t", "a", "g", "e">>)
K_percentage == Codes(<<"p", "e", "r", "c", "e", "n", "t", "a", "g", "e">>)
K_scores == Codes(<<"s", "c", "o", "r", "e", "s">>)
K_lang == Codes(<<"l", "a", "n", "g">>)
K_timestamp == Codes(<<"t", "i", "m", "e", "s", "t", "a", "m", "p">>)

\* The text of the strings that travel in a token
TextOf(str) ==
    CASE str = "stage1" -> Codes(<<"s", "t", "a", "g", "e", "1">>)
      [] str = "stage2" -> Codes(<<"s", "t", "a", "g", "e", "2">>)
      [] str = "stage3" -> Codes(<<"s", "t", "a", "g", "e", "3">>)
      [] str = "stage4" -> Codes(<<"s", "t", "a", "g", "e", "4">>)
      [] str = "en" -> Codes(<<"e", "n">>)
      [] str = "zh-TW" -> Codes(<<"z", "h", "-", "T", "W">>)
      [] str = "fr" -> Codes(<<"f", "r">>)

\* The scores object {stage1: .., stage2: .., stage3: .., stage4: ..}
ScoresObject(scores) ==
    JObj([i \in DOMAIN StageKeys |-> Member(TextOf(StageKeys[i]), JNum(scores[StageKeys[i]]))])

\* const resultsData = { stage, percentage, scores, lang, timestamp } (lines 894-900)
ResultsData(results, lang, timestamp) ==
    JObj(<< Member(K_stage, JStr(TextOf(results.stage))),
            Member(K_percentage, JNum(results.percentage)),
            Member(K_scores, ScoresObject(results.scores)),
            Member(K_lang, JStr(TextOf(lang))),
            Member(K_timestamp, JNum(timestamp)) >>)

\* btoa(JSON.stringify(resultsData)) (line 902); the share URL is
\* base + "?results=" + this text (line 904)
shareResults(results, lang, timestamp) ==
    btoa(JSONStringify(ResultsData(results, lang, timestamp))).out

\* An absent text (a missing URL parameter or storage item): null and the
\* empty string are both falsy, and the code only tests these for truthiness
NoText == <<>>

\* A value of Date.now() (seconds stand for the milliseconds, which exceed
\* the integers TLC computes with)
Epoch == 1700000000

\* Mutant: only the stage is required
IsValidShared_StageOnly(decodedResults) ==
    /\ Truthy(decodedResults)
    /\ Truthy(Prop(decodedResults, K_stage))

\* The validation of line 872
IsValidShared(decodedResults) ==
    /\ Truthy(decodedResults)
    /\ Truthy(Prop(decodedResults, K_stage))
    /\ Truthy(Prop(decodedResults, K_percentage))

\* Lines 872-876 on the outcome of JSON.parse; a SyntaxError goes to the catch
ValidatedResults(parsed) ==
    IF parsed.ok /\ IsValidShared(parsed.v) THEN parsed.v ELSE JNull

\* JSON.parse on the outcome of atob (line 869); an InvalidCharacterError
\* goes to the catch
DecodedResults(bytes) ==
    IF ~bytes.ok THEN JNull ELSE ValidatedResults(JSONParse(bytes.out))

\* Lines 864-869 on the value of the results parameter
EncodedResults(encodedResults) ==
    IF encodedResults = <<>> THEN JNull ELSE DecodedResults(atob(encodedResults))

\* getSharedResults(): JNull stands for the null it returns; every throw
\* inside is caught (lines 877-880)
getSharedResults(rawParam) ==
    IF rawParam = NoText THEN JNull ELSE EncodedResults(URLParamValue(rawParam))

\* checkForSharedResults() (lines 1365-1371): the value of pendingSharedResults
\* after it, given the value before and what getSharedResults returned
checkForSharedResults(pending, sharedResults) ==
    IF Truthy(sharedResults) THEN sharedResults ELSE pending

----------------------------------------------------------------------------
(* I18nManager.loadTranslations: the cache, the promises, the retrievals *)

\* Keys of translations and loadingPromises explored: the two supported
\* locales and fr, a tag the site has no file for
LangKeys == {"en", "zh-TW", "fr"}

\* ./lang/${lang}.json exists for the two languages of the site
FileExists(lang) == lang \in SupportedLangs

\* translations[lang] is undefined
NoContent == [lang |-> Null, ver |-> 0]

\* The body of ./lang/${lang}.json as delivered by retrieval number id
Content(lang, id) == [lang |-> lang, ver |-> id]

\* loadingPromises[lang] is undefined
NoPromise == [state |-> "none", id |-> 0, value |-> NoContent]

\* The promise created at line 80 by retrieval number id of its language
PendingPromise(id) == [state |-> "pending", id |-> id, value |-> NoContent]

FulfilledPromise(id, value) == [state |-> "fulfilled", id |-> id, value |-> value]

RejectedPromise(id) == [state |-> "rejected", id |-> id, value |-> NoContent]

\* Mutant: the in-flight marker is not consulted
LoadPath_NoDedup(tr, lp, lang) ==
    IF tr[lang] # NoContent THEN "cached" ELSE "fetch"

\* The return path loadTranslations(lang) takes (lines 72-80)
LoadPath(tr, lp, lang) ==
    IF tr[lang] # NoContent THEN "cached"
    ELSE IF lp[lang].state # "none" THEN "joined"
    ELSE "fetch"

\* Mutant: the failure is always rethrown
CatchFetchError_AlwaysRejects(tr, lang, id) == RejectedPromise(id)

\* The .catch handler of lines 91-98: how the promise of a failed retrieval settles
CatchFetchError(tr, lang, id) ==
    IF lang # "en" /\ tr["en"] # NoContent
    THEN FulfilledPromise(id, tr["en"])
    ELSE RejectedPromise(id)

----------------------------------------------------------------------------
(* The program state that handlers and continuations update, as a record;  *)
(* each handler below is an operator from such a record to the next one    *)

ProgramState ==
    [ currentLang |-> currentLang, docLang |-> docLang, lsLang |-> lsLang,
      urlLang |-> urlLang, lsResults |-> lsResults, questions |-> questions,
      assessmentDisplay |-> assessmentDisplay, resultsDisplay |-> resultsDisplay,
      displayed |-> displayed, cleanupTimers |-> cleanupTimers,
      initPhase |-> initPhase, hideTimer |-> hideTimer,
      sharedChecked |-> sharedChecked, pendingSharedResults |-> pendingSharedResults,
      completed |-> completed, answers |-> answers,
      currentQuestionIndex |-> currentQuestionIndex,
      renderedQuestion |-> renderedQuestion, finishDisplay |-> finishDisplay,
      sharedShown |-> sharedShown ]

Becomes(st) ==
    /\ currentLang' = st.currentLang
    /\ docLang' = st.docLang
    /\ lsLang' = st.lsLang
    /\ urlLang' = st.urlLang
    /\ lsResults' = st.lsResults
    /\ questions' = st.questions
    /\ assessmentDisplay' = st.assessmentDisplay
    /\ resultsDisplay' = st.resultsDisplay
    /\ displayed' = st.displayed
    /\ cleanupTimers' = st.cleanupTimers
    /\ initPhase' = st.initPhase
    /\ hideTimer' = st.hideTimer
    /\ sharedChecked' = st.sharedChecked
    /\ pendingSharedResults' = st.pendingSharedResults
    /\ completed' = st.completed
    /\ answers' = st.answers
    /\ currentQuestionIndex' = st.currentQuestionIndex
    /\ renderedQuestion' = st.renderedQuestion
    /\ finishDisplay' = st.finishDisplay
    /\ sharedShown' = st.sharedShown

\* The variables no handler of the page load and the language switch writes
Untouched == UNCHANGED <<calcResult, storage, browserLanguages, timezone,
                         codecInput, now, shareToken, advanceTimers, userEvents>>

\* updateNavigationButtons() (lines 292-314): the finish button shows on the
\* last question once it has an answer
updateNavigationButtons(st) ==
    [st EXCEPT !.finishDisplay =
        IF st.currentQuestionIndex = Len(st.questions) - 1
           /\ st.currentQuestionIndex \in DOMAIN st.answers
        THEN "inline-block" ELSE "none"]

\* renderQuestion(index) (lines 220-274): nothing happens when there is no
\* such question; otherwise the container shows the question and its options
renderQuestion(st, index) ==
    IF index + 1 \notin DOMAIN st.questions THEN st
    ELSE updateNavigationButtons([st EXCEPT !.renderedQuestion = index])

K_language == Codes(<<"l", "a", "n", "g", "u", "a", "g", "e">>)

\* The TLA+ string of a language tag read from a payload
LangOfText(text) == CHOOSE l \in LangKeys : TextOf(l) = text

\* The question list of a content file; both languages carry the same
\* questions with the same score maps
ContentQuestions(content) ==
    << << Opt("stage1" :> 3), Opt("stage2" :> 3), Opt("stage3" :> 3) >>,
       << Opt(("stage1" :> 2) @@ ("stage2" :> 2)), Opt(("stage3" :> 1) @@ ("stage4" :> 3)), NoScoreOpt >> >>

\* loadQuestions() (lines 214-218): translations?.assessment?.questions || []
loadQuestions(tr, lang) ==
    IF tr[lang] # NoContent THEN ContentQuestions(tr[lang]) ELSE <<>>

\* storeResults(results) (lines 835-847): a failing setItem is caught
storeResults(st, results) ==
    LET resultData ==
            JObj(SetProp(SetProp(results.o, K_timestamp, JNum(now)),
                         K_language, JStr(TextOf(st.currentLang))))
    IN  IF storage = "ok" THEN [st EXCEPT !.lsResults = JSONStringify(resultData)] ELSE st

\* Line 852 on the outcome of JSON.parse; a SyntaxError goes to the catch
ParsedOrNull(parsed) == IF parsed.ok THEN parsed.v ELSE JNull

\* getStoredResults() (lines 849-857): a failing read or parse gives null
getStoredResults(st) ==
    IF storage = "denied" \/ st.lsResults = NoText THEN JNull
    ELSE ParsedOrNull(JSONParse(st.lsResults))

\* displayResults(results) (lines 704-727), with showResultsSection
displayResults(st, results) ==
    storeResults([st EXCEPT !.assessmentDisplay = "none",
                            !.resultsDisplay = "block",
                            !.displayed = results], results)

\* Mutant: a successful change leaves the URL parameter as it was
changeLanguageApply_UrlNotSet(st, lang) ==
    IF storage # "ok"
    THEN [st |-> [st EXCEPT !.currentLang = lang, !.docLang = lang], success |-> FALSE]
    ELSE [st |-> [st EXCEPT !.currentLang = lang, !.docLang = lang,
                            !.lsLang = lang], success |-> TRUE]

\* changeLanguage(lang) after its await returned (lines 106-122); setItem
\* throws unless the storage is usable, and the catch returns false
changeLanguageApply(st, lang) ==
    IF storage # "ok"
    THEN [st |-> [st EXCEPT !.currentLang = lang, !.docLang = lang], success |-> FALSE]
    ELSE [st |-> [st EXCEPT !.currentLang = lang, !.docLang = lang,
                            !.lsLang = lang, !.urlLang = lang], success |-> TRUE]

\* Lines 1064-1067: in assessment mode the questions are reloaded and the
\* current question is rendered again
ReloadQuestions(st, tr) ==
    IF st.assessmentDisplay # "none"
    THEN renderQuestion([st EXCEPT !.questions = loadQuestions(tr, st.currentLang)],
                        st.currentQuestionIndex)
    ELSE st

\* Lines 1071-1073: stored results, if any, are displayed again
RedisplayStored(st, storedResults) ==
    IF Truthy(storedResults) THEN displayResults(st, storedResults) ELSE st

\* Lines 1069-1074: in results mode the stored results are read
RefreshResults(st) ==
    IF st.resultsDisplay # "none" THEN RedisplayStored(st, getStoredResults(st)) ELSE st

\* The language button handler after changeLanguage returned (lines 1062-1075)
LangButtonResume(st, tr, success) ==
    IF ~success THEN st ELSE RefreshResults(ReloadQuestions(st, tr))

\* Mutant: the URL is never scheduled for cleaning
SharedResume_NoCleanup(st, sharedResults) ==
    [displayResults(st, sharedResults) EXCEPT !.sharedShown = @ + 1]

\* displayResults(sharedResults); cleanupSharedResultsUrl() (lines 1380-1385)
SharedResume(st, sharedResults) ==
    [displayResults(st, sharedResults) EXCEPT !.cleanupTimers = @ + 1,
                                              !.sharedShown = @ + 1]

\* init() after its await (lines 983-1006): initializeUI, setupEventListeners,
\* checkForSharedResults, hideLoadingScreen; a rejection goes to the catch
InitResume(st, tr, promise) ==
    IF promise.state # "fulfilled" THEN [st EXCEPT !.initPhase = "failed"]
    ELSE [st EXCEPT !.docLang = st.currentLang,
                    !.questions = loadQuestions(tr, st.currentLang),
                    !.sharedChecked = TRUE,
                    !.pendingSharedResults =
                        checkForSharedResults(@, getSharedResults(urlResults)),
                    !.hideTimer = "armed",
                    !.initPhase = "ready"]

\* A continuation awaiting loadTranslations(lang): who waits (origin), the
\* retrieval it waits for (ticket), the shared results it carries, and the
\* group of calls that were waiting for this language when it was made
Waiter(origin, lang, ticket, group, sharedResults) ==
    [origin |-> origin, lang |-> lang, ticket |-> ticket, group |-> group, shared |-> sharedResults]

\* The continuation of waiter w once its promise has settled
Resume(st, tr, w, promise) ==
    LET changed == IF promise.state = "fulfilled"
                   THEN changeLanguageApply(st, w.lang)
                   ELSE [st |-> st, success |-> FALSE]
        logged == [st EXCEPT !.completed =
                       Append(@, [lang |-> w.lang, group |-> w.group,
                                  state |-> promise.state, value |-> promise.value,
                                  origin |-> w.origin,
                                  success |-> w.origin # "init" /\ changed.success])]
        Logged(after) == [after EXCEPT !.completed = logged.completed]
    IN  CASE w.origin = "init" -> InitResume(logged, tr, promise)
          [] w.origin = "button" -> LangButtonResume(Logged(changed.st), tr, changed.success)
          [] w.origin = "popstate" -> Logged(changed.st)
          [] w.origin = "shared" -> SharedResume(Logged(changed.st), w.shared)

RECURSIVE ResumeAll(_, _, _, _)
\* The continuations of the waiters ws run in registration order
ResumeAll(st, tr, ws, promise) ==
    IF ws = <<>> THEN st
    ELSE ResumeAll(Resume(st, tr, Head(ws), promise), tr, Tail(ws), promise)

\* The group of a new call for lang: that of the calls already waiting for
\* lang, or a fresh one
GroupOf(lang) ==
    IF \E i \in DOMAIN waiters : waiters[i].lang = lang
    THEN waiters[CHOOSE i \in DOMAIN waiters : waiters[i].lang = lang].group
    ELSE Len(completed) + Len(waiters) + 1

\* A call of loadTranslations(lang) whose caller continues as described by
\* origin: lines 72-100 and, when the promise is already settled, the
\* caller's continuation
Call(st, origin, lang, sharedResults) ==
    LET path == LoadPath(translations, loadingPromises, lang)
        promise == loadingPromises[lang]
        id == fetchCount[lang] + 1
        w(ticket) == Waiter(origin, lang, ticket, GroupOf(lang), sharedResults)
        settled == IF path = "cached" THEN FulfilledPromise(0, translations[lang])
                                      ELSE promise
    IN  CASE path = "cached" \/ (path = "joined" /\ promise.state # "pending") ->
                /\ Becomes(Resume(st, translations, w(settled.id), settled))
                /\ UNCHANGED <<translations, loadingPromises, fetches, fetchCount, waiters>>
          [] path = "joined" /\ promise.state = "pending" ->
                /\ waiters' = Append(waiters, w(promise.id))
                /\ Becomes(st)
                /\ UNCHANGED <<translations, loadingPromises, fetches, fetchCount>>
          [] path = "fetch" ->
                /\ fetchCount' = [fetchCount EXCEPT ![lang] = id]
                /\ fetches' = fetches \cup {[lang |-> lang, id |-> id]}
                /\ loadingPromises' = [loadingPromises EXCEPT ![lang] = PendingPromise(id)]
                /\ waiters' = Append(waiters, w(id))
                /\ Becomes(st)
                /\ UNCHANGED translations

\* reset() (lines 356-360)
reset(st, tr) ==
    [st EXCEPT !.currentQuestionIndex = 0,
               !.answers = <<>>,
               !.questions = loadQuestions(tr, st.currentLang)]

\* Mutant: the new answer replaces the whole answer set
selectAnswer_OnlyLatest(st, questionIndex, optionIndex) ==
    updateNavigationButtons([st EXCEPT !.answers = questionIndex :> optionIndex])

\* selectAnswer(questionIndex, optionIndex) (lines 276-279)
selectAnswer(st, questionIndex, optionIndex) ==
    updateNavigationButtons(
        [st EXCEPT !.answers = (questionIndex :> optionIndex) @@ st.answers])

\* nextQuestion() without the test of line 317
nextQuestion_Unguarded(st) ==
    renderQuestion([st EXCEPT !.currentQuestionIndex = @ + 1],
                   st.currentQuestionIndex + 1)

\* nextQuestion() (lines 316-321)
nextQuestion(st) ==
    IF st.currentQuestionIndex < Len(st.questions) - 1
    THEN renderQuestion([st EXCEPT !.currentQuestionIndex = @ + 1],
                        st.currentQuestionIndex + 1)
    ELSE st

\* previousQuestion() (lines 323-328)
previousQuestion(st) ==
    IF st.currentQuestionIndex > 0
    THEN renderQuestion([st EXCEPT !.currentQuestionIndex = @ - 1],
                        st.currentQuestionIndex - 1)
    ELSE st

\* startAssessment() (lines 1268-1296)
startAssessment(st, tr) ==
    renderQuestion([reset(st, tr) EXCEPT !.assessmentDisplay = "block"], 0)

\* retakeAssessment() (lines 1309-1324)
retakeAssessment(st, tr) ==
    [renderQuestion([reset(st, tr) EXCEPT !.resultsDisplay = "none"], 0)
        EXCEPT !.assessmentDisplay = "block"]

\* The object returned at lines 348-353: { stage, scores, percentage }
ResultsObject(results) ==
    JObj(<< Member(K_stage, JStr(TextOf(results.stage))),
            Member(K_scores, ScoresObject(results.scores)),
            Member(K_percentage, IF results.percentage = NaN THEN JNaN
                                 ELSE JNum(results.percentage)) >>)

\* finishAssessment() (lines 1298-1307): an exception of calculateResults
\* leaves the handler before anything is displayed
finishAssessment(st, results) ==
    IF results.status = "threw" THEN st
    ELSE displayResults(st, ResultsObject(results))

\* shareResults(storedResults) (lines 883-904) on a parsed object: the text
\* after "?results=" in the share URL
StoredShareToken(storedResults, lang, timestamp) ==
    btoa(JSONStringify(
        JObj(<< Member(K_stage, Prop(storedResults, K_stage)),
                Member(K_percentage, Prop(storedResults, K_percentage)),
                Member(K_scores, Prop(storedResults, K_scores)),
                Member(K_lang, JStr(TextOf(lang))),
                Member(K_timestamp, JNum(timestamp)) >>))).out

\* The share button handler (lines 1126-1133)
ShareStored(storedResults, lang, timestamp, token) ==
    IF Truthy(storedResults) THEN StoredShareToken(storedResults, lang, timestamp)
    ELSE token

\* The option buttons renderQuestion put into the container for question index
RenderedOptionIndices(index) ==
    0..(Len(ContentQuestions(NoContent)[index + 1]) - 1)


----------------------------------------------------------------------------
(* Variable groups *)

scoreVars == <<questions, answers, calcResult>>

signalVars == <<urlLang, lsLang, storage, browserLanguages, timezone>>

i18nVars == <<constructed, currentLang>>

shareVars == <<codecInput, now, shareToken, urlResults, sharedChecked, pendingSharedResults>>

cacheVars == <<translations, loadingPromises, fetches, fetchCount, waiters, completed, callCount>>

pageVars == <<initPhase, hideTimer, cleanupTimers, docLang, lsResults,
              assessmentDisplay, resultsDisplay, displayed,
              currentQuestionIndex, renderedQuestion, finishDisplay,
              advanceTimers, sharedShown, userEvents>>

vars == <<scoreVars, signalVars, i18nVars, shareVars, cacheVars, pageVars>>

\* Values of the groups a specification does not exercise
ScoreIdle ==
    /\ questions = <<>>
    /\ answers = <<>>
    /\ calcResult = [status |-> "none", stage |-> "", scores |-> ZeroScores, percentage |-> 0]

SignalsIdle ==
    /\ urlLang = Null
    /\ lsLang = Null
    /\ storage = "ok"
    /\ browserLanguages = <<>>
    /\ timezone = "Europe/Paris"

I18nIdle ==
    /\ constructed = "no"
    /\ currentLang = Null

NoResults == [stage |-> "", percentage |-> 0, scores |-> ZeroScores]

ShareIdle ==
    /\ codecInput = NoResults
    /\ now = Epoch
    /\ shareToken = NoText
    /\ urlResults = NoText
    /\ sharedChecked = FALSE
    /\ pendingSharedResults = JNull

\* new I18nManager(): this.translations = {}, this.loadingPromises = {}
CacheIdle ==
    /\ translations = [l \in LangKeys |-> NoContent]
    /\ loadingPromises = [l \in LangKeys |-> NoPromise]
    /\ fetches = {}
    /\ fetchCount = [l \in LangKeys |-> 0]
    /\ waiters = <<>>
    /\ completed = <<>>
    /\ callCount = 0

\* The page before DOMContentLoaded; both sections start hidden, as the
\* mode tests of lines 1326-1334 presuppose
PageIdle ==
    /\ initPhase = "new"
    /\ hideTimer = "none"
    /\ cleanupTimers = 0
    /\ docLang = Null
    /\ lsResults = NoText
    /\ assessmentDisplay = "none"
    /\ resultsDisplay = "none"
    /\ displayed = JNull
    /\ currentQuestionIndex = 0
    /\ renderedQuestion = -1
    /\ finishDisplay = "none"
    /\ advanceTimers = 0
    /\ sharedShown = 0
    /\ userEvents = 0

----------------------------------------------------------------------------
(* Specification SpecScore: calculateResults applied to bounded inputs *)

QuestionLists == UNION {[1..n -> QuestionPool] : n \in 1..MaxQuestions}

AnswerSets ==
    UNION {[D -> 0..MaxOptionIndex] : D \in SUBSET (0..(MaxQuestions - 1))}

\* The ten-question scenario: every question offers stage1, stage2, stage3
\* with contribution 3
TenQuestions ==
    [i \in 1..10 |-> << Opt("stage1" :> 3), Opt("stage2" :> 3), Opt("stage3" :> 3) >>]

\* Answer sets over the ten questions: the first eight answers choose stage3;
\* the last two choose another stage or are missing
TenAnswerSets ==
    { [qi \in 0..7 |-> 2],
      [qi \in 0..8 |-> IF qi < 8 THEN 2 ELSE 0],
      [qi \in 0..9 |-> IF qi < 8 THEN 2 ELSE 0],
      [qi \in 0..9 |-> IF qi < 8 THEN 2 ELSE 1] }

InitScore ==
    /\ \/ questions \in QuestionLists /\ answers \in AnswerSets
       \/ questions = TenQuestions /\ answers \in TenAnswerSets
    /\ calcResult = NoCalc
    /\ SignalsIdle
    /\ I18nIdle
    /\ ShareIdle
    /\ CacheIdle
    /\ PageIdle

Calculate ==
    /\ calcResult.status = "none"
    /\ calcResult' = calculateResults(questions, answers)
    /\ UNCHANGED <<questions, answers, signalVars, i18nVars, shareVars, cacheVars, pageVars>>

NextScore == Calculate

SpecScore == InitScore /\ [][NextScore]_vars

----------------------------------------------------------------------------
(* Specification SpecDetect: the I18nManager constructor applied to bounded signals *)

ParamValues == {Null, "", "en", "zh-TW", "zh-tw", "fr"}

LanguageTags ==
    { T_en,
      <<"e", "n", "-", "U", "S">>,
      <<"e", "n", "g">>,
      T_zhTW,
      <<"z", "h", "-", "H", "a", "n", "t", "-", "H", "K">>,
      <<"z", "h", "-", "C", "N">>,
      T_zhHK,
      <<"f", "r", "-", "F", "R">> }

LanguageLists == UNION {[1..n -> LanguageTags] : n \in 0..MaxLanguages}

Timezones == {"Asia/Taipei", "Asia/Hong_Kong", "Asia/Macau", "Europe/Paris", IntlThrows}

InitDetect ==
    /\ urlLang \in ParamValues
    /\ lsLang \in ParamValues
    /\ storage \in {"ok", "denied"}
    /\ browserLanguages \in LanguageLists
    /\ timezone \in Timezones
    /\ I18nIdle
    /\ ScoreIdle
    /\ ShareIdle
    /\ CacheIdle
    /\ PageIdle

\* constructor(): this.currentLang = this.detectLanguage() (line 14)
Construct ==
    /\ constructed = "no"
    /\ LET d == detectLanguage(urlLang, storage, lsLang, browserLanguages, timezone)
       IN  /\ constructed' = IF d.status = "returned" THEN "yes" ELSE "threw"
           /\ currentLang' = d.lang
    /\ UNCHANGED <<signalVars, scoreVars, shareVars, cacheVars, pageVars>>

NextDetect == Construct

SpecDetect == InitDetect /\ [][NextDetect]_vars

----------------------------------------------------------------------------
(* Specification SpecCodec: a result is shared by one visitor and the       *)
(* share URL is opened by another                                           *)

\* Score maps of the results shared
SharedScores ==
    { ZeroScores,
      [k \in StageSet |-> IF k \in {"stage1", "stage2"} THEN 2 ELSE 0],
      [k \in StageSet |-> IF k = "stage3" THEN 24 ELSE IF k = "stage1" THEN 0 ELSE 3],
      [k \in StageSet |-> IF k = "stage4" THEN 11 ELSE 10] }

\* Results objects: every stage, every percentage 0..100
SharedResultsSet ==
    [stage : StageSet, percentage : 0..100, scores : SharedScores]

InitCodec ==
    /\ codecInput \in SharedResultsSet
    /\ now = Epoch
    /\ shareToken = NoText
    /\ urlResults = NoText
    /\ sharedChecked = FALSE
    /\ pendingSharedResults = JNull
    /\ constructed = "yes"
    /\ currentLang \in SupportedLangs
    /\ SignalsIdle
    /\ ScoreIdle
    /\ CacheIdle
    /\ PageIdle

\* shareResults(results) up to the share URL (lines 883-904)
ShareResults ==
    /\ shareToken = NoText
    /\ shareToken' = shareResults(codecInput, currentLang, now)
    /\ UNCHANGED <<codecInput, now, urlResults, sharedChecked, pendingSharedResults,
                   scoreVars, signalVars, i18nVars, cacheVars, pageVars>>

\* The share URL is opened: its query string is the recipient's location.search
OpenShareUrl ==
    /\ shareToken # NoText
    /\ urlResults = NoText
    /\ ~sharedChecked
    /\ urlResults' = shareToken
    /\ UNCHANGED <<codecInput, now, shareToken, sharedChecked, pendingSharedResults,
                   scoreVars, signalVars, i18nVars, cacheVars, pageVars>>

\* checkForSharedResults() (lines 1365-1371)
CheckForSharedResults ==
    /\ urlResults # NoText
    /\ ~sharedChecked
    /\ sharedChecked' = TRUE
    /\ pendingSharedResults' =
           checkForSharedResults(pendingSharedResults, getSharedResults(urlResults))
    /\ UNCHANGED <<codecInput, now, shareToken, urlResults,
                   scoreVars, signalVars, i18nVars, cacheVars, pageVars>>

NextCodec == ShareResults \/ OpenShareUrl \/ CheckForSharedResults

SpecCodec == InitCodec /\ [][NextCodec]_vars

----------------------------------------------------------------------------
(* Specification Spec: a page load and the events that follow it *)

\* A result shared by another visitor
SampleResults ==
    [stage |-> "stage3", percentage |-> 80,
     scores |-> [k \in StageSet |-> IF k = "stage3" THEN 24 ELSE 2]]

ValidTokens ==
    { shareResults(SampleResults, "en", Epoch),
      shareResults(SampleResults, "zh-TW", Epoch) }

SampleToken == shareResults(SampleResults, "en", Epoch)

SampleText == JSONStringify(ResultsData(SampleResults, "en", Epoch))

\* Values of the results parameter that are not valid base64
NotBase64Tokens ==
    { [SampleToken EXCEPT ![7] = Ord("*")],
      SubSeq(SampleToken, 1, 41) }

\* Valid base64 of a text that is not a structured payload
NotJsonTokens ==
    { SubSeq(SampleToken, 1, 40),
      btoa(Codes(<<"h", "e", "l", "l", "o">>)).out }

\* Valid base64 of a payload that lacks stage or percentage
LackingFieldTokens ==
    { btoa(JSONStringify(JObj(Tail(ResultsData(SampleResults, "en", Epoch).o)))).out,
      btoa(JSONStringify(JObj(<<Member(K_stage, JStr(TextOf("stage2")))>>))).out,
      btoa(Codes(<<"{", "}">>)).out }

InvalidTokens == NotBase64Tokens \cup NotJsonTokens \cup LackingFieldTokens

\* Valid base64 of payloads whose stage and percentage are present and truthy
\* but name no stage and no percentage: a stage outside stage1..stage4 with a
\* percentage above 100, and a number in place of the stage
IllTypedTokens ==
    { btoa(JSONStringify(JObj(<< Member(K_stage, JStr(Codes(<<"s", "t", "a", "g", "e", "9">>))),
                                 Member(K_percentage, JNum(500)) >>))).out,
      btoa(JSONStringify(JObj(<< Member(K_stage, JNum(7)),
                                 Member(K_percentage, JStr(Codes(<<"h", "i", "g", "h">>))) >>))).out }

Init ==
    /\ urlLang \in {Null, "zh-TW"}
    /\ lsLang \in {Null, "en"}
    /\ storage \in {"ok", "full", "denied"}
    /\ browserLanguages = <<>>
    /\ timezone \in {"Europe/Paris", "Asia/Taipei"}
    /\ urlResults \in {NoText} \cup ValidTokens \cup InvalidTokens \cup IllTypedTokens
    /\ codecInput = NoResults
    /\ now = Epoch
    /\ shareToken = NoText
    /\ sharedChecked = FALSE
    /\ pendingSharedResults = JNull
    /\ I18nIdle
    /\ ScoreIdle
    /\ CacheIdle
    /\ PageIdle

\* The DOMContentLoaded handler (lines 1424-1429): new AIJourneyApp(), then
\* init() up to its await (lines 976-981)
DOMContentLoaded ==
    /\ constructed = "no"
    /\ \E d \in {detectLanguage(urlLang, storage, lsLang, browserLanguages, timezone)} :
           IF d.status = "threw"
           THEN /\ constructed' = "threw"
                /\ UNCHANGED <<scoreVars, signalVars, currentLang, shareVars, cacheVars, pageVars>>
           ELSE /\ constructed' = "yes"
                /\ Call([ProgramState EXCEPT !.currentLang = d.lang, !.initPhase = "loading"],
                        "init", d.lang, JNull)
                /\ UNCHANGED <<callCount, urlResults>>
                /\ Untouched

\* A retrieval settles: the then/catch handlers of lines 81-98 run, and then
\* the continuations of everyone awaiting the promise
FetchSettles(f, ok) ==
    LET tr == IF ok THEN [translations EXCEPT ![f.lang] = Content(f.lang, f.id)]
                    ELSE translations
        promise == IF ok THEN FulfilledPromise(f.id, Content(f.lang, f.id))
                         ELSE CatchFetchError(translations, f.lang, f.id)
        Awaits(w) == w.lang = f.lang /\ w.ticket = f.id
        Others(w) == ~Awaits(w)
    IN  /\ translations' = tr
        /\ loadingPromises' = IF loadingPromises[f.lang].id = f.id
                              THEN [loadingPromises EXCEPT ![f.lang] = promise]
                              ELSE loadingPromises
        /\ fetches' = fetches \ {f}
        /\ waiters' = SelectSeq(waiters, Others)
        /\ Becomes(ResumeAll(ProgramState, tr, SelectSeq(waiters, Awaits), promise))
        /\ UNCHANGED <<fetchCount, callCount, constructed, urlResults>>
        /\ Untouched

FetchSucceeds == \E f \in fetches : FileExists(f.lang) /\ FetchSettles(f, TRUE)

FetchFails == \E f \in fetches : FetchSettles(f, FALSE)

\* Click on a language button (lines 1057-1077)
ClickLanguage ==
    \E lang \in SupportedLangs :
        /\ initPhase = "ready"
        /\ callCount < MaxCalls
        /\ lang # currentLang
        /\ callCount' = callCount + 1
        /\ Call(ProgramState, "button", lang, JNull)
        /\ UNCHANGED <<constructed, urlResults>>
        /\ Untouched

\* The popstate handler (lines 1149-1156); the URL of the history entry
\* carries the lang parameter value
PopState ==
    \E value \in LangKeys \cup {Null} :
        /\ initPhase = "ready"
        /\ callCount < MaxCalls
        /\ callCount' = callCount + 1
        /\ IF value # Null /\ value # currentLang
           THEN Call([ProgramState EXCEPT !.urlLang = value], "popstate", value, JNull)
           ELSE /\ Becomes([ProgramState EXCEPT !.urlLang = value])
                /\ UNCHANGED <<translations, loadingPromises, fetches, fetchCount, waiters>>
        /\ UNCHANGED <<constructed, urlResults>>
        /\ Untouched

\* The timer of hideLoadingScreen fires (lines 1021-1039):
\* displayPendingSharedResults() (lines 1373-1390)
HideLoadingScreen ==
    /\ hideTimer = "armed"
    /\ LET st == [ProgramState EXCEPT !.hideTimer = "fired", !.pendingSharedResults = JNull]
           sharedResults == pendingSharedResults
           lang == Prop(sharedResults, K_lang)
       IN  IF ~Truthy(sharedResults)
           THEN /\ Becomes([ProgramState EXCEPT !.hideTimer = "fired"])
                /\ UNCHANGED <<translations, loadingPromises, fetches, fetchCount, waiters>>
           ELSE IF Truthy(lang) /\ LangOfText(lang.s) # currentLang
           THEN Call(st, "shared", LangOfText(lang.s), sharedResults)
           ELSE /\ Becomes(SharedResume(st, sharedResults))
                /\ UNCHANGED <<translations, loadingPromises, fetches, fetchCount, waiters>>
    /\ UNCHANGED <<callCount, constructed, urlResults>>
    /\ Untouched

\* A timer of cleanupSharedResultsUrl fires (lines 1394-1398)
CleanupSharedResultsUrl ==
    /\ cleanupTimers > 0
    /\ cleanupTimers' = cleanupTimers - 1
    /\ urlResults' = NoText
    /\ UNCHANGED <<scoreVars, signalVars, i18nVars, cacheVars,
                   codecInput, now, shareToken, sharedChecked, pendingSharedResults,
                   initPhase, hideTimer, docLang, lsResults,
                   assessmentDisplay, resultsDisplay, displayed,
                   currentQuestionIndex, renderedQuestion, finishDisplay,
                   advanceTimers, sharedShown, userEvents>>

Next ==
    \/ DOMContentLoaded
    \/ FetchSucceeds
    \/ FetchFails
    \/ ClickLanguage
    \/ PopState
    \/ HideLoadingScreen
    \/ CleanupSharedResultsUrl

Spec == Init /\ [][Next]_vars

\* A timer that is armed fires (setTimeout, lines 1021 and 1394) and every
\* retrieval settles, one way or the other (fetch, line 80).
\* HideLoadingScreen is enabled exactly while hideTimer = "armed" and
\* disarms the timer, and a settling step is enabled exactly while fetches
\* is not empty and removes one of the finitely many retrievals: weak
\* fairness of these two is written by the states in which they are disabled.
TimerFires == []<>(hideTimer # "armed")

FetchesSettle == []<>(fetches = {})

SpecFair ==
    /\ Spec
    /\ TimerFires
    /\ FetchesSettle
    /\ WF_vars(CleanupSharedResultsUrl)

----------------------------------------------------------------------------
(* Specification SpecQuiz: the assessment on a loaded page                  *)

MaxTimers == 1          \* auto-advance timers pending at once
MaxSwitches == 1        \* language buttons clicked during the assessment
MaxEvents == 6          \* clicks, key presses and resizes after the load

\* The page after init() in language lang, detected from timezone tz, with no
\* URL parameters, and after the loading screen was hidden: the state Spec
\* reaches by DOMContentLoaded, FetchSucceeds, HideLoadingScreen
LoadedPage(lang, tz) ==
    /\ urlLang = Null
    /\ lsLang = Null
    /\ browserLanguages = <<>>
    /\ timezone = tz
    /\ constructed = "yes"
    /\ currentLang = lang
    /\ docLang = lang
    /\ translations = [l \in LangKeys |-> IF l = lang THEN Content(lang, 1) ELSE NoContent]
    /\ loadingPromises = [l \in LangKeys |->
                             IF l = lang THEN FulfilledPromise(1, Content(lang, 1))
                             ELSE NoPromise]
    /\ fetches = {}
    /\ fetchCount = [l \in LangKeys |-> IF l = lang THEN 1 ELSE 0]
    /\ waiters = <<>>
    /\ completed = << [lang |-> lang, group |-> 1, state |-> "fulfilled",
                       value |-> Content(lang, 1), origin |-> "init",
                       success |-> FALSE] >>
    /\ callCount = 0
    /\ questions = ContentQuestions(Content(lang, 1))
    /\ answers = <<>>
    /\ calcResult = NoCalc
    /\ codecInput = NoResults
    /\ now = Epoch
    /\ shareToken = NoText
    /\ urlResults = NoText
    /\ sharedChecked = TRUE
    /\ pendingSharedResults = JNull
    /\ initPhase = "ready"
    /\ hideTimer = "fired"
    /\ cleanupTimers = 0
    /\ lsResults = NoText
    /\ assessmentDisplay = "none"
    /\ resultsDisplay = "none"
    /\ displayed = JNull
    /\ currentQuestionIndex = 0
    /\ renderedQuestion = -1
    /\ finishDisplay = "none"
    /\ advanceTimers = 0
    /\ sharedShown = 0
    /\ userEvents = 0

InitQuiz ==
    /\ storage \in {"ok", "full"}
    /\ \/ LoadedPage("en", "Europe/Paris")
       \/ LoadedPage("zh-TW", "Asia/Taipei")

CacheUntouched ==
    UNCHANGED <<translations, loadingPromises, fetches, fetchCount, waiters,
                callCount, constructed, urlResults>>

EnvironmentUntouched ==
    UNCHANGED <<storage, browserLanguages, timezone, codecInput, now>>

\* A click, key press or resize is counted
UserEvent ==
    /\ userEvents < MaxEvents
    /\ userEvents' = userEvents + 1

\* Click on the start button (lines 1081-1086)
StartAssessment ==
    /\ initPhase = "ready"
    /\ hideTimer = "fired"
    /\ Becomes(startAssessment(ProgramState, translations))
    /\ CacheUntouched
    /\ EnvironmentUntouched
    /\ UNCHANGED <<calcResult, shareToken, advanceTimers>>
    /\ UserEvent

\* Click on an option of the rendered question (lines 241-261): the answer
\* is stored and the auto-advance timer is armed
SelectAnswer ==
    /\ assessmentDisplay # "none"
    /\ renderedQuestion >= 0
    /\ advanceTimers < MaxTimers
    /\ \E optionIndex \in RenderedOptionIndices(renderedQuestion) :
           Becomes(selectAnswer(ProgramState, renderedQuestion, optionIndex))
    /\ advanceTimers' = advanceTimers + 1
    /\ CacheUntouched
    /\ EnvironmentUntouched
    /\ UNCHANGED <<calcResult, shareToken>>
    /\ UserEvent

\* The auto-advance timer fires (lines 254-259)
AutoAdvance ==
    /\ advanceTimers > 0
    /\ advanceTimers' = advanceTimers - 1
    /\ Becomes(nextQuestion(ProgramState))
    /\ CacheUntouched
    /\ EnvironmentUntouched
    /\ UNCHANGED <<calcResult, shareToken, userEvents>>

\* ArrowRight in assessment mode (lines 1137-1141); the next button itself
\* is hidden by updateNavigationButtons
KeyArrowRight ==
    /\ initPhase = "ready"
    /\ assessmentDisplay # "none"
    /\ Becomes(nextQuestion(ProgramState))
    /\ CacheUntouched
    /\ EnvironmentUntouched
    /\ UNCHANGED <<calcResult, shareToken, advanceTimers>>
    /\ UserEvent

\* Click on the previous button (lines 1094-1098) or ArrowLeft in
\* assessment mode (lines 1137-1139)
PreviousQuestion ==
    /\ initPhase = "ready"
    /\ assessmentDisplay # "none"
    /\ Becomes(previousQuestion(ProgramState))
    /\ CacheUntouched
    /\ EnvironmentUntouched
    /\ UNCHANGED <<calcResult, shareToken, advanceTimers>>
    /\ UserEvent

\* Click on the finish button (lines 1106-1110) or Enter in assessment mode
\* while the button shows (lines 1142-1144)
FinishAssessment ==
    /\ initPhase = "ready"
    /\ assessmentDisplay # "none"
    /\ finishDisplay # "none"
    /\ \E results \in {calculateResults(questions, answers)} :
           /\ calcResult' = results
           /\ Becomes(finishAssessment(ProgramState, results))
    /\ CacheUntouched
    /\ EnvironmentUntouched
    /\ UNCHANGED <<shareToken, advanceTimers>>
    /\ UserEvent

\* Click on the retake button of the results section (lines 1120-1124)
RetakeAssessment ==
    /\ initPhase = "ready"
    /\ resultsDisplay # "none"
    /\ Becomes(retakeAssessment(ProgramState, translations))
    /\ CacheUntouched
    /\ EnvironmentUntouched
    /\ UNCHANGED <<calcResult, shareToken, advanceTimers>>
    /\ UserEvent

\* Click on the share button of the results section (lines 1126-1133)
ShareClick ==
    /\ initPhase = "ready"
    /\ resultsDisplay # "none"
    /\ shareToken' = ShareStored(getStoredResults(ProgramState), currentLang, now, shareToken)
    /\ Becomes(ProgramState)
    /\ CacheUntouched
    /\ EnvironmentUntouched
    /\ UNCHANGED <<calcResult, advanceTimers>>
    /\ UserEvent

\* The window is resized (lines 1159, 1336-1353): in results mode the chart
\* is drawn again from the stored results, which are only read
Resize ==
    /\ initPhase = "ready"
    /\ Becomes(ProgramState)
    /\ CacheUntouched
    /\ EnvironmentUntouched
    /\ UNCHANGED <<calcResult, shareToken, advanceTimers>>
    /\ UserEvent

\* The environment: the storage quota is used up (setItem throws) or access
\* to the storage is withdrawn (every access throws)
StorageFails ==
    /\ storage = "ok"
    /\ storage' \in {"full", "denied"}
    /\ Becomes(ProgramState)
    /\ CacheUntouched
    /\ UNCHANGED <<browserLanguages, timezone, codecInput, now,
                   calcResult, shareToken, advanceTimers, userEvents>>

\* Click on a language button, as in Spec
SwitchLanguage ==
    /\ callCount < MaxSwitches
    /\ ClickLanguage

NextQuiz ==
    \/ StartAssessment
    \/ SelectAnswer
    \/ AutoAdvance
    \/ KeyArrowRight
    \/ PreviousQuestion
    \/ FinishAssessment
    \/ RetakeAssessment
    \/ ShareClick
    \/ Resize
    \/ SwitchLanguage
    \/ FetchSucceeds
    \/ FetchFails
    \/ StorageFails

SpecQuiz == InitQuiz /\ [][NextQuiz]_vars

----------------------------------------------------------------------------
(* Properties of calculateResults (checked under SpecScore) *)

StageIndex(k) == CHOOSE i \in DOMAIN StageKeys : StageKeys[i] = k

MaxScore(scores) == Max(Range(scores))

\* C1: whenever two or more stages share the maximum accumulated score, the
\* stage calculateResults returns is the lowest of them in the order
\* stage1 < stage2 < stage3 < stage4 (scores 2,2,0,0 resolve to stage1).
C1_TieResolvesToLowestStage ==
    calcResult.status = "returned" =>
        \A k \in StageSet :
            calcResult.scores[k] = MaxScore(calcResult.scores)
                => StageIndex(calcResult.stage) <= StageIndex(k)

\* C2: with an empty answer set and a non-empty question list,
\* calculateResults raises no error and returns all-zero scores, the lowest
\* stage (stage1) and percentage 0.
C2_EmptyAnswersLowestStage ==
    (calcResult.status # "none" /\ DOMAIN answers = {} /\ Len(questions) > 0) =>
        /\ calcResult.status = "returned"
        /\ calcResult.scores = ZeroScores
        /\ calcResult.stage = "stage1"
        /\ calcResult.percentage = 0

RECURSIVE SumOver(_, _, _, _)
\* Sum over the set S of answered question indices of the contribution of
\* the selected option to stage k (0 when the key or the option is missing)
SumOver(S, qs, ans, k) ==
    IF S = {} THEN 0
    ELSE LET qi == CHOOSE x \in S : TRUE
             options == qs[qi + 1]
             contribution ==
                 IF ans[qi] + 1 \in DOMAIN options
                    /\ options[ans[qi] + 1].hasScore
                    /\ k \in DOMAIN options[ans[qi] + 1].score
                 THEN options[ans[qi] + 1].score[k]
                 ELSE 0
         IN  contribution + SumOver(S \ {qi}, qs, ans, k)

\* C10: for every answer set over the question list, the scores returned by
\* calculateResults have exactly the keys stage1..stage4, each value an
\* integer >= 0 equal to the sum over the answered questions of the selected
\* option's contribution to that stage.
C10_ScoresAreFourSums ==
    (calcResult.status # "none" /\ ~AnswerOutsideQuestions(questions, answers)) =>
        /\ calcResult.status = "returned"
        /\ DOMAIN calcResult.scores = {"stage1", "stage2", "stage3", "stage4"}
        /\ \A k \in DOMAIN calcResult.scores :
              /\ calcResult.scores[k] \in Nat
              /\ calcResult.scores[k] = SumOver(DOMAIN answers, questions, answers, k)

\* Two answered questions, one of them contributing to two stages at once
C10_Witness ==
    /\ calcResult.status = "returned"
    /\ Cardinality(DOMAIN answers) = 2
    /\ calcResult.scores["stage1"] = 5
    /\ calcResult.scores["stage2"] = 2

----------------------------------------------------------------------------
(* Properties of detectLanguage (checked under SpecDetect) *)

\* The language subtag of a tag: the characters before the first "-"
RECURSIVE PrimarySubtag(_)
PrimarySubtag(tag) ==
    IF tag = <<>> \/ Head(tag) = "-" THEN <<>>
    ELSE <<Head(tag)>> \o PrimarySubtag(Tail(tag))

\* What one browser-language entry decides: Chinese in any regional or script
\* variant gives zh-TW, English exactly or with a region gives en
EntryDecision(tag) ==
    IF PrimarySubtag(tag) = <<"z", "h">> THEN "zh-TW"
    ELSE IF PrimarySubtag(tag) = <<"e", "n">> THEN "en"
    ELSE Null

MatchingEntries(langs) == {i \in DOMAIN langs : EntryDecision(langs[i]) # Null}

UrlStep == IF urlLang = "en" \/ urlLang = "zh-TW" THEN urlLang ELSE Null

StoredStep == IF lsLang = "en" \/ lsLang = "zh-TW" THEN lsLang ELSE Null

BrowserStep ==
    IF MatchingEntries(browserLanguages) = {} THEN Null
    ELSE LET first == CHOOSE i \in MatchingEntries(browserLanguages) :
                          \A j \in MatchingEntries(browserLanguages) : i <= j
         IN  EntryDecision(browserLanguages[first])

TimezoneStep == IF timezone \in {"Asia/Taipei", "Asia/Hong_Kong", "Asia/Macau"} THEN "zh-TW" ELSE Null

PriorityChain == <<UrlStep, StoredStep, BrowserStep, TimezoneStep, "en">>

FirstYield ==
    PriorityChain[CHOOSE i \in DOMAIN PriorityChain :
                      /\ PriorityChain[i] # Null
                      /\ \A j \in 1..(i - 1) : PriorityChain[j] = Null]

\* C7: detectLanguage returns the outcome of the first step, in the order
\* URL lang parameter, stored preference, browser language list, timezone,
\* default en, that yields a supported locale; a parameter or preference
\* that is not exactly en or zh-TW yields nothing; with lang=zh-TW in the URL
\* the result is zh-TW whatever the other signals are.
C7_PriorityChain ==
    /\ constructed = "yes" => currentLang = FirstYield
    /\ (constructed # "no" /\ urlLang = "zh-TW") =>
            (constructed = "yes" /\ currentLang = "zh-TW")

\* lang=zh-TW in the URL wins over a stored en, English browser languages,
\* and a storage that cannot be read
C7_Witness ==
    /\ constructed = "yes"
    /\ urlLang = "zh-TW"
    /\ lsLang = "en"
    /\ storage = "denied"
    /\ browserLanguages = <<T_en>>
    /\ currentLang = "zh-TW"

\* C8: with no valid URL parameter and no valid stored preference, the
\* browser language list is scanned in order and the first entry that
\* matches decides the locale; entries matching nothing are skipped
\* (fr-FR, en-US resolves to en); the timezone step is reached only if no
\* entry matches.
C8_BrowserLanguageStep ==
    (constructed = "yes" /\ UrlStep = Null /\ StoredStep = Null) =>
        /\ MatchingEntries(browserLanguages) # {} => currentLang = BrowserStep
        /\ MatchingEntries(browserLanguages) = {} =>
              currentLang = (IF TimezoneStep # Null THEN TimezoneStep ELSE "en")
        /\ browserLanguages = << <<"f", "r", "-", "F", "R">>, <<"e", "n", "-", "U", "S">> >>
              => currentLang = "en"

\* fr-FR is skipped, en-US decides, although the timezone would say zh-TW
C8_Witness ==
    /\ constructed = "yes"
    /\ urlLang = Null
    /\ lsLang = "fr"
    /\ browserLanguages = << <<"f", "r", "-", "F", "R">>, <<"e", "n", "-", "U", "S">> >>
    /\ timezone = "Asia/Taipei"
    /\ currentLang = "en"

\* C9: if a signal source read by detectLanguage throws (the stored
\* preference read, the timezone API), the source yields no signal and
\* resolution proceeds; detectLanguage never throws and always returns a
\* locale.
C9_DetectNeverThrows ==
    constructed # "no" => (constructed = "yes" /\ currentLang \in SupportedLangs)

----------------------------------------------------------------------------
(* Properties of the share token (checked under SpecCodec) *)

\* C3: for any valid result r (any stage, non-negative scores, any integer
\* percentage 0..100, either locale), decoding with getSharedResults the
\* token shareResults builds from r returns a non-absent value with the same
\* stage, scores, percentage and locale as r.
C3_ShareTokenRoundTrip ==
    (sharedChecked /\ urlResults = shareToken) =>
        /\ pendingSharedResults # JNull
        /\ Prop(pendingSharedResults, K_stage) = JStr(TextOf(codecInput.stage))
        /\ Prop(pendingSharedResults, K_percentage) = JNum(codecInput.percentage)
        /\ Prop(pendingSharedResults, K_scores) = ScoresObject(codecInput.scores)
        /\ Prop(pendingSharedResults, K_lang) = JStr(TextOf(currentLang))

----------------------------------------------------------------------------
(* Properties of the page load and the translation cache (checked under Spec) *)

\* The step in which the timer of hideLoadingScreen fires
HideStep == hideTimer = "armed" /\ hideTimer' = "fired"

\* C4: for a results parameter that is not valid base64, does not parse as a
\* structured payload, or parses to a payload lacking stage or percentage,
\* getSharedResults returns null without throwing, and the load leaves the
\* application as a load without results parameter does: no pending shared
\* result, nothing displayed, nothing persisted.
C4_InvalidTokenIsNoSharedResult ==
    /\ [](urlResults \in InvalidTokens =>
            /\ getSharedResults(urlResults) = JNull
            /\ pendingSharedResults = JNull
            /\ cleanupTimers = 0)
    /\ [][(urlResults \in InvalidTokens \cup {NoText} /\ HideStep) =>
            UNCHANGED <<displayed, lsResults, resultsDisplay, assessmentDisplay,
                        cleanupTimers, urlResults, pendingSharedResults,
                        i18nVars, cacheVars, signalVars>>]_vars

\* A load with an invalid token has run to the end of the loading screen
C4_Witness ==
    /\ urlResults \in InvalidTokens
    /\ sharedChecked
    /\ hideTimer = "fired"
    /\ displayed = JNull
    /\ lsResults = NoText

InFlight(lang) == {f \in fetches : f.lang = lang}

\* C5: a new retrieval for a locale is issued only when the locale has
\* neither resolved content nor a retrieval in flight; at most one retrieval
\* per locale is outstanding; the calls waiting together for a locale are
\* served by exactly one retrieval and all receive the same content.
C5_RetrievalDedup ==
    /\ [](\A lang \in LangKeys : Cardinality(InFlight(lang)) <= 1)
    /\ [](\A i \in DOMAIN waiters : Cardinality(InFlight(waiters[i].lang)) = 1)
    /\ [](\A i, j \in DOMAIN completed :
            (completed[i].lang = completed[j].lang /\ completed[i].group = completed[j].group)
                => (completed[i].state = completed[j].state
                    /\ completed[i].value = completed[j].value))
    /\ [][\A lang \in LangKeys :
            fetchCount'[lang] > fetchCount[lang] =>
                (translations[lang] = NoContent /\ InFlight(lang) = {})]_vars

\* Two calls made while zh-TW was being retrieved got the content of the one retrieval
C5_Witness ==
    \E i, j \in DOMAIN completed :
        /\ i < j
        /\ completed[i].lang = "zh-TW"
        /\ completed[j].lang = "zh-TW"
        /\ completed[i].group = completed[j].group
        /\ completed[i].state = "fulfilled"
        /\ completed[i].value = Content("zh-TW", 1)
        /\ fetchCount["zh-TW"] = 1

\* C6: when a retrieval for a locale fails and the failure propagates to the
\* caller, loadingPromises[locale] is cleared, so that a later call for the
\* locale issues a new retrieval.
C6_MarkerClearedAfterFailure ==
    \A lang \in LangKeys : loadingPromises[lang].state # "rejected"

----------------------------------------------------------------------------
(* Further properties of calculateResults (checked under SpecScore) *)

\* C11: percentage = round(winningScore / (questionCount * 3) * 100), the
\* divisor counting all questions and not only the answered ones; it is an
\* integer in 0..100; ten questions with stage3 at 24 give stage3 and 80.
\* Rounding is stated without division: p is the integer with
\* p - 1/2 <= 100 * w / d < p + 1/2.
C11_PercentageOfAllQuestions ==
    calcResult.status = "returned" =>
        LET w == MaxScore(calcResult.scores)
            d == 3 * Len(questions)
            p == calcResult.percentage
        IN  /\ p \in 0..100
            /\ 2 * d * p - d <= 200 * w
            /\ 200 * w < 2 * d * p + d
            /\ (Len(questions) = 10 /\ w = 24 /\ calcResult.scores["stage3"] = 24)
                  => (calcResult.stage = "stage3" /\ p = 80)

\* The ten-question scenario has been scored
C11_Witness ==
    /\ calcResult.status = "returned"
    /\ Len(questions) = 10
    /\ Cardinality(DOMAIN answers) < 10
    /\ calcResult.scores["stage3"] = 24
    /\ calcResult.percentage = 80

\* The answered questions that exist in the question list
AnswersInList(qs, ans) == {qi \in DOMAIN ans : qi + 1 \in DOMAIN qs}

\* C12: calculateResults never throws; an answer whose question index lies
\* outside the question list, or whose option index lies outside the
\* question's options, is skipped and the other answers are scored.
C12_InvalidIndicesIgnored ==
    calcResult.status # "none" =>
        /\ calcResult.status = "returned"
        /\ \A k \in StageSet :
              calcResult.scores[k] =
                  SumOver(AnswersInList(questions, answers), questions, answers, k)

\* C20: the stage returned is a key of the returned scores, and its score is
\* at least the score of each of the four stages.
C20_WinnerHasMaximumScore ==
    calcResult.status = "returned" =>
        /\ calcResult.stage \in DOMAIN calcResult.scores
        /\ \A k \in StageSet :
              calcResult.scores[calcResult.stage] >= calcResult.scores[k]

\* A result whose winner is neither the first nor the last key and stands alone
C20_Witness ==
    /\ calcResult.status = "returned"
    /\ calcResult.stage = "stage2"
    /\ \A k \in StageSet \ {"stage2"} :
          calcResult.scores["stage2"] > calcResult.scores[k]

----------------------------------------------------------------------------
(* Further properties of the load flow and the language switch (checked     *)
(* under Spec and SpecFair)                                                 *)

\* The loadTranslations calls whose continuation ran in this step
NewlyCompleted == {completed'[i] : i \in (Len(completed) + 1)..Len(completed')}

\* A step no explicit user action stands behind: the loading-screen timer,
\* a history navigation, or the completion of a language change that one of
\* these two started
NonUserStep ==
    \/ HideStep
    \/ PopState
    \/ /\ NewlyCompleted # {}
       /\ \A e \in NewlyCompleted : e.origin \in {"shared", "popstate"}

\* C13: the active locale and the persisted last Result are modified only by
\* language switch, finish-assessment and retake; a page load carrying a
\* shared-result token, a history navigation and a timer firing modify
\* neither of them.
C13_OnlyUserActionsWrite ==
    [][NonUserStep => UNCHANGED <<currentLang, lsResults>>]_vars

\* C15: whenever changeLanguage(L) returns true, the active locale, the
\* stored preferred-language, the URL lang parameter and the document lang
\* attribute all equal L in the state the step leaves behind.
C15_SuccessfulChangeAgrees ==
    [][\A e \in NewlyCompleted :
          e.success => /\ currentLang' = e.lang
                       /\ lsLang' = e.lang
                       /\ urlLang' = e.lang
                       /\ docLang' = e.lang]_vars

\* A click on the zh-TW button has completed successfully
C15_Witness ==
    \E i \in DOMAIN completed :
        /\ completed[i].origin = "button"
        /\ completed[i].success
        /\ completed[i].lang = "zh-TW"
        /\ currentLang = "zh-TW"
        /\ urlLang = "zh-TW"

\* The retrievals that fail in this step
FailingNow == {f \in fetches \ fetches' : translations'[f.lang] = NoContent}

\* C16: when the retrieval for a locale other than en fails while the en
\* content is resolved, the call resolves with the en content; when en is
\* not resolved, or the failing locale is en, the call rejects.
C16_FallbackPolicy ==
    [][\A f \in FailingNow :
          LET promise == loadingPromises'[f.lang]
              calls == {e \in NewlyCompleted : e.lang = f.lang}
          IN  IF f.lang # "en" /\ translations["en"] # NoContent
              THEN /\ promise.state = "fulfilled"
                   /\ promise.value = translations["en"]
                   /\ \A e \in calls : e.state = "fulfilled" /\ e.value = translations["en"]
              ELSE /\ promise.state = "rejected"
                   /\ \A e \in calls : e.state = "rejected"]_vars

\* A call for zh-TW was served the en content, and a call was rejected
C16_Witness ==
    /\ \E i \in DOMAIN completed :
          /\ completed[i].lang = "zh-TW"
          /\ completed[i].state = "fulfilled"
          /\ completed[i].value = Content("en", 1)
    /\ loadingPromises["zh-TW"].state = "fulfilled"
    /\ translations["zh-TW"] = NoContent

\* C17: on a load with a valid results token the decoded result is displayed
\* exactly once, when the loading screen is hidden and no language change
\* started for it is still pending (what is on display then is the decoded
\* result, unless a language switch of the user completes in the same step
\* and displays again); the results parameter leaves the URL only after that
\* display, and it does leave it.
C17_SharedTokenConsumed ==
    /\ [](sharedShown <= 1)
    /\ [][sharedShown' > sharedShown =>
            /\ hideTimer' = "fired"
            /\ \A i \in DOMAIN waiters' : waiters'[i].origin # "shared"
            /\ (\A c \in NewlyCompleted : c.origin = "shared")
                  => displayed' = getSharedResults(urlResults)]_vars
    /\ [][(urlResults # NoText /\ urlResults' = NoText) => sharedShown = 1]_vars
    /\ (urlResults \in ValidTokens /\ hideTimer = "armed")
          ~> (sharedShown = 1 /\ urlResults = NoText)

\* The shared result was displayed after the language change it asked for,
\* and the parameter has left the URL
C17_Witness ==
    /\ sharedShown = 1
    /\ urlResults = NoText
    /\ displayed # JNull
    /\ \E i \in DOMAIN completed : completed[i].origin = "shared"

----------------------------------------------------------------------------
(* Properties of the assessment (checked under SpecQuiz) *)

\* C14: once a Result is persisted, the persisted Result (stage, scores,
\* percentage, timestamp and locale) is changed by finish-assessment only;
\* a language switch while results are viewed, a resize and sharing leave it
\* as it is.
C14_PersistedResultImmutable ==
    [][(lsResults # NoText /\ lsResults' # lsResults) => FinishAssessment]_vars

\* C18: a failing storage write does not keep finish-assessment from
\* displaying the result (nothing is persisted), and does not keep a language
\* switch whose content arrived from taking effect as active locale, document
\* language and URL parameter; a failing storage read makes getStoredResults
\* yield nothing.
C18_StorageFailuresDoNotBlock ==
    /\ [][(FinishAssessment /\ calcResult'.status = "returned") =>
            /\ displayed' = ResultsObject(calcResult')
            /\ resultsDisplay' = "block"
            /\ storage # "ok" => lsResults' = lsResults]_vars
    /\ [][\A e \in NewlyCompleted :
            (e.origin = "button" /\ e.state = "fulfilled") =>
                /\ currentLang' = e.lang
                /\ docLang' = e.lang
                /\ urlLang' = e.lang]_vars
    /\ [](storage = "denied" => getStoredResults(ProgramState) = JNull)

\* The entries in which two answer sets differ
ChangedAnswers(before, after) ==
    {qi \in DOMAIN before \cup DOMAIN after :
        qi \notin DOMAIN before \/ qi \notin DOMAIN after \/ before[qi] # after[qi]}

\* C19: start and retake leave an empty answer set and question index 0; any
\* other change of the answer set is made by a click on an option, sets the
\* entry of the rendered question and no other; moving between questions, a
\* language switch, finishing and sharing leave the answer set as it is.
C19_AnswerSetLifecycle ==
    /\ [][(StartAssessment \/ RetakeAssessment) =>
            (answers' = <<>> /\ currentQuestionIndex' = 0)]_vars
    /\ [][answers' # answers =>
            \/ StartAssessment \/ RetakeAssessment
            \/ /\ SelectAnswer
               /\ ChangedAnswers(answers, answers') = {renderedQuestion}
               /\ renderedQuestion \in DOMAIN answers']_vars
    /\ [][(AutoAdvance \/ KeyArrowRight \/ PreviousQuestion \/ SwitchLanguage
              \/ FetchSucceeds \/ FetchFails \/ FinishAssessment \/ ShareClick)
            => answers' = answers]_vars

\* A second run: after a finished assessment and a retake, the first
\* question was answered again
C19_Witness ==
    /\ lsResults # NoText
    /\ assessmentDisplay # "none"
    /\ resultsDisplay = "none"
    /\ DOMAIN answers = {0}

----------------------------------------------------------------------------
(* Properties of the validation of shared results (checked under Spec) *)

\* A payload whose stage is one of stage1..stage4 and whose percentage is an
\* integer in 0..100
WellTypedResults(payload) ==
    /\ Prop(payload, K_stage).t = "str"
    /\ Prop(payload, K_stage).s \in {TextOf(k) : k \in StageSet}
    /\ Prop(payload, K_percentage).t = "num"
    /\ Prop(payload, K_percentage).n \in 0..100

\* C21: the shared result a load accepts from the results parameter has a
\* stage among stage1..stage4 and an integer percentage in 0..100; every
\* other payload leaves no pending shared result.
C21_OnlyWellTypedAccepted ==
    pendingSharedResults # JNull => WellTypedResults(pendingSharedResults)

----------------------------------------------------------------------------
(* Properties of the active locale and the cache (checked under Spec) *)

\* C22: once the I18nManager is constructed, the active locale is en or
\* zh-TW in every state, whatever the URL, the history navigation, the
\* shared token and the outcome of the retrievals.
C22_ActiveLocaleSupported ==
    constructed = "yes" => currentLang \in SupportedLangs

\* No language change is in flight: nothing awaits a retrieval
NoChangeInFlight == waiters = <<>> /\ fetches = {}

\* C23: when the application is initialized and no language change is in
\* flight, the cache holds content for the active locale and the question
\* list is that content's; the cache holds under a locale only content
\* retrieved for that locale.
C23_ActiveLocaleResolved ==
    /\ (initPhase = "ready" /\ NoChangeInFlight) =>
          /\ translations[currentLang] # NoContent
          /\ questions = ContentQuestions(translations[currentLang])
    /\ \A l \in LangKeys : translations[l] # NoContent => translations[l].lang = l

\* C24: a changeLanguage call that returns false leaves the active locale,
\* the stored preference, the URL lang parameter and the document lang
\* attribute as they were before the step in which it returned.
C24_FailedChangeChangesNothing ==
    [][(NewlyCompleted # {}
          /\ \A e \in NewlyCompleted : e.origin # "init" /\ ~e.success)
        => UNCHANGED <<currentLang, lsLang, urlLang, docLang>>]_vars

\* The changeLanguage calls that have returned, in the order of their return
ChangeCalls == SelectSeq(completed, LAMBDA e : e.origin # "init")

\* The calls of ChangeCalls were requested in the order of their groups:
\* no two of them shared a retrieval
RequestOrderKnown ==
    \A i, j \in DOMAIN ChangeCalls : i # j => ChangeCalls[i].group # ChangeCalls[j].group

\* The most recently requested of the calls that have returned
LastRequested ==
    CHOOSE e \in Range(ChangeCalls) : \A f \in Range(ChangeCalls) : f.group <= e.group

\* C25: in the step in which the last of several changeLanguage calls
\* returns, so that none is in flight any more, the active locale, the stored
\* preference and the URL lang parameter are the locale of the most recently
\* requested call if that call returned true, whatever the order in which
\* the calls returned.
C25_LastRequestWins ==
    [][(NewlyCompleted # {} /\ NoChangeInFlight' /\ ChangeCalls' # <<>>
          /\ RequestOrderKnown' /\ LastRequested'.success)
        => /\ currentLang' = LastRequested'.lang
           /\ lsLang' = LastRequested'.lang
           /\ urlLang' = LastRequested'.lang]_vars

(* Properties of the position in the assessment (checked under SpecQuiz) *)

\* C26: a firing auto-advance timer moves the assessment by at most one
\* question, and when it moves, the question it leaves has an answer.
C26_AutoAdvanceLeavesAnswered ==
    [][(AutoAdvance /\ currentQuestionIndex' # currentQuestionIndex)
        => /\ currentQuestionIndex' = currentQuestionIndex + 1
           /\ currentQuestionIndex \in DOMAIN answers]_vars

====
